---- MODULE Spec2Model ----
(***************************************************************************)
(* Model of api/trek.js: the HTTP handler that splits a free-text food     *)
(* query into (qty, food) mentions, looks each one up at an external       *)
(* text-generation service, sanitizes and scales the answer, and asks the  *)
(* same service for recommendations.                                       *)
(*                                                                         *)
(* Strings are sequences of one-character strings.  Numbers are integers   *)
(* counting hundredths (1.25 is 125), so that Math.round(v * 10) / 10 is a *)
(* real rounding step; the non-finite IEEE values are separate kinds.      *)
(***************************************************************************)
EXTENDS Integers, Sequences, FiniteSets, TLC

VARIABLES pc, q, parsedFoods, items, totals, res, calls, op, arg, ret

vars == <<pc, q, parsedFoods, items, totals, res, calls, op, arg, ret>>

hvars == <<pc, q, parsedFoods, items, totals, res, calls>>

fvars == <<op, arg, ret>>

(* ------------------------------ bounds -------------------------------- *)

MaxTokens == 3

MaxQty == 3

(* ------------------------------ strings ------------------------------- *)

UpperChars == <<"A","B","C","D","E","F","G","H","I","J","K","L","M",
                "N","O","P","Q","R","S","T","U","V","W","X","Y","Z">>

LowerChars == <<"a","b","c","d","e","f","g","h","i","j","k","l","m",
                "n","o","p","q","r","s","t","u","v","w","x","y","z">>

Digits == <<"0","1","2","3","4","5","6","7","8","9">>

LF == "\n"

toLowerCaseChar(c) ==
  IF \E i \in 1..26 : UpperChars[i] = c
  THEN LowerChars[CHOOSE i \in 1..26 : UpperChars[i] = c]
  ELSE c

toUpperCaseChar(c) ==
  IF \E i \in 1..26 : LowerChars[i] = c
  THEN UpperChars[CHOOSE i \in 1..26 : LowerChars[i] = c]
  ELSE c

toLowerCase(s) == [i \in 1..Len(s) |-> toLowerCaseChar(s[i])]

IsDigit(c) == \E i \in 1..10 : Digits[i] = c

DigitVal(c) == (CHOOSE i \in 1..10 : Digits[i] = c) - 1

\* \s of the regular expression and the white space String.prototype.trim
\* removes: both include the line terminators.
IsSpace(c) == c \in {" ", LF, "\t"}

\* "." of the regular expression matches everything but a line terminator.
IsLineTerminator(c) == c = LF

Drop(s, n) == SubSeq(s, n + 1, Len(s))

StartsWith(s, p) == Len(s) >= Len(p) /\ SubSeq(s, 1, Len(p)) = p

endsWith(s, p) ==
  Len(s) >= Len(p) /\ SubSeq(s, Len(s) - Len(p) + 1, Len(s)) = p

RECURSIVE trimStart(_)
trimStart(s) ==
  IF s # <<>> /\ IsSpace(Head(s)) THEN trimStart(Tail(s)) ELSE s

RECURSIVE trimEnd(_)
trimEnd(s) ==
  IF s # <<>> /\ IsSpace(s[Len(s)])
  THEN trimEnd(SubSeq(s, 1, Len(s) - 1))
  ELSE s

trim(s) == trimEnd(trimStart(s))

\* Length of the longest prefix of s made of digits (the greedy \d+).
RECURSIVE DigitRun(_)
DigitRun(s) ==
  IF s # <<>> /\ IsDigit(Head(s)) THEN 1 + DigitRun(Tail(s)) ELSE 0

\* Length of the longest prefix of s made of white space (the greedy \s+).
RECURSIVE SpaceRun(_)
SpaceRun(s) ==
  IF s # <<>> /\ IsSpace(Head(s)) THEN 1 + SpaceRun(Tail(s)) ELSE 0

RECURSIVE parseInt(_)
parseInt(d) ==
  IF d = <<>> THEN 0
  ELSE 10 * parseInt(SubSeq(d, 1, Len(d) - 1)) + DigitVal(d[Len(d)])

RECURSIVE ToDigits(_)
ToDigits(n) ==
  IF n < 10 THEN <<Digits[n + 1]>>
  ELSE ToDigits(n \div 10) \o <<Digits[(n % 10) + 1]>>

(* ------------------------- parseFoodsWithQuantity ---------------------- *)

\* The alternatives of /with|,|\+|and|&/ in the order the regex tries them.
Separators == << <<"w","i","t","h">>, <<",">>, <<"+">>,
                 <<"a","n","d">>, <<"&">> >>

SepAt(s) == {i \in 1..Len(Separators) : StartsWith(s, Separators[i])}

\* String.prototype.split with the separator regex: cut at every leftmost
\* non-overlapping match, keeping the empty pieces.
RECURSIVE SplitAcc(_, _, _)
SplitAcc(s, cur, acc) ==
  IF s = <<>> THEN Append(acc, cur)
  ELSE IF SepAt(s) # {}
       THEN LET i == CHOOSE j \in SepAt(s) : \A k \in SepAt(s) : j <= k
            IN  SplitAcc(Drop(s, Len(Separators[i])), <<>>, Append(acc, cur))
       ELSE SplitAcc(Tail(s), Append(cur, Head(s)), acc)

split(s) == SplitAcc(s, <<>>, <<>>)

\* part.trim().match(/^(\d+)\s+(.*)$/): the match exists when the trimmed
\* part starts with digits, then white space, and no line terminator
\* follows that white space.
QtyMatch(t) ==
  LET nd   == DigitRun(t)
      rest == Drop(t, nd)
      ns   == SpaceRun(rest)
      tail == Drop(rest, ns)
  IN  [ok   |-> nd >= 1 /\ ns >= 1
                /\ \A i \in 1..Len(tail) : ~IsLineTerminator(tail[i]),
       d    |-> SubSeq(t, 1, nd),
       tail |-> tail]

\* The name is taken from the part as it was cut, white space included.
ParsePart_untrimmed(part) ==
  LET m == QtyMatch(trim(part))
  IN  [qty  |-> IF m.ok THEN parseInt(m.d) ELSE 1,
       food |-> IF m.ok THEN trim(m.tail) ELSE part]

ParsePart(part) ==
  LET m == QtyMatch(trim(part))
  IN  [qty  |-> IF m.ok THEN parseInt(m.d) ELSE 1,
       food |-> IF m.ok THEN trim(m.tail) ELSE trim(part)]

\* Array.prototype.filter(f => f.food): the empty string is the only falsy
\* string.
RECURSIVE FilterFood(_)
FilterFood(ms) ==
  IF ms = <<>> THEN <<>>
  ELSE IF Head(ms).food # <<>>
       THEN <<Head(ms)>> \o FilterFood(Tail(ms))
       ELSE FilterFood(Tail(ms))

parseFoodsWithQuantity(input) ==
  LET parts == split(toLowerCase(input))
  IN  FilterFood([i \in 1..Len(parts) |-> ParsePart(parts[i])])

(* ---------------------------- parser inputs --------------------------- *)

\* The handler rejects the empty query before the parser runs, so the parser
\* only sees non-empty text.

Tokens == { <<"a">>, <<"B">>, <<" ">>, <<"2">>, <<"0">>, <<",">>, <<"&">>,
            <<"+">>, <<"a","n","d">>, <<"W","i","t","h">>, <<LF>> }

RECURSIVE Concat(_)
Concat(ts) == IF ts = <<>> THEN <<>> ELSE Head(ts) \o Concat(Tail(ts))

ParserInputs ==
  {Concat(ts) : ts \in UNION {[1..n -> Tokens] : n \in 1..MaxTokens}}

(* ------------------------------ handler idle -------------------------- *)

\* No request is in progress.
HandlerIdle ==
  /\ pc = "idle"
  /\ q = <<>>
  /\ parsedFoods = <<>>
  /\ items = <<>>
  /\ totals = <<>>
  /\ res = <<>>
  /\ calls = <<>>

(* --------------------- specification of the Splitter ------------------ *)

InitParse ==
  /\ HandlerIdle
  /\ op = "input"
  /\ arg \in ParserInputs
  /\ ret = <<>>

Parse ==
  /\ op = "input"
  /\ op' = "parsed"
  /\ ret' = parseFoodsWithQuantity(arg)
  /\ UNCHANGED <<arg, hvars>>

NextParse == Parse

SpecParse == InitParse /\ [][NextParse]_vars

(* ----------------------- claims about the Splitter -------------------- *)

\* s contains one of the separator tokens, upper or lower case.
ContainsSeparator(s) ==
  \E i \in 0..Len(s) : SepAt(Drop(toLowerCase(s), i)) # {}

IsBlank(s) == \A i \in 1..Len(s) : IsSpace(s[i])

AllDigits(s) == s # <<>> /\ \A i \in 1..Len(s) : IsDigit(s[i])

\* s starts with a run of digits that white space follows.
HasQtyPrefix(s) ==
  \E n \in 1..Len(s) - 1 :
    /\ \A i \in 1..n : IsDigit(s[i])
    /\ IsSpace(s[n + 1])

NonBlankParts(s) ==
  LET parts == split(toLowerCase(s))
  IN  Cardinality({i \in 1..Len(parts) : ~IsBlank(parts[i])})

\* C7: every FoodMention returned by parseFoodsWithQuantity has an integer
\* quantity >= 1 and a non-empty name; segments that are blank produce no
\* mention, and an input made only of digits yields quantity 1 with the
\* digits as the name.
C7_MentionsWellFormed ==
  op = "parsed" =>
    /\ \A i \in 1..Len(ret) :
         ret[i].qty \in Nat /\ ret[i].qty >= 1 /\ ret[i].food # <<>>
    /\ Len(ret) = NonBlankParts(arg)
    /\ AllDigits(trim(arg)) => ret = <<[qty |-> 1, food |-> trim(arg)]>>

\* C8 as stated: every input without a separator token yields exactly one
\* FoodMention, of quantity 1, named by the trimmed lower-cased input.
C8_Original ==
  (op = "parsed" /\ ~ContainsSeparator(arg)) =>
    ret = <<[qty |-> 1, food |-> trim(toLowerCase(arg))]>>

\* C8 amended: every input without a separator token whose trimmed form is
\* non-empty and does not start with digits followed by white space yields
\* exactly one FoodMention, of quantity 1, named by the trimmed lower-cased
\* input.
C8_SingleMention ==
  (/\ op = "parsed"
   /\ ~ContainsSeparator(arg)
   /\ ~IsBlank(arg)
   /\ ~HasQtyPrefix(trim(arg))) =>
    ret = <<[qty |-> 1, food |-> trim(toLowerCase(arg))]>>

C8_Witness ==
  /\ op = "parsed"
  /\ arg = <<" ", "B", "a">>
  /\ ret = <<[qty |-> 1, food |-> <<"b", "a">>]>>

(* ---------------------------- JavaScript values ----------------------- *)

\* A value is [k, n, s]: its kind, its number in hundredths (kind "number";
\* 1 or 0 for a boolean) and its characters (kind "string") or elements
\* (kind "array").
Val(k, n, s) == [k |-> k, n |-> n, s |-> s]

Undefined == Val("undefined", 0, <<>>)

Null == Val("null", 0, <<>>)

Num(n) == Val("number", n, <<>>)

Infinity == Val("inf", 0, <<>>)

NegInfinity == Val("ninf", 0, <<>>)

NaN == Val("nan", 0, <<>>)

Str(s) == Val("string", 0, s)

Bool(b) == Val("boolean", IF b THEN 1 ELSE 0, <<>>)

Arr(s) == Val("array", 0, s)

Obj == Val("object", 0, <<>>)

\* typeof v === "number"
IsNumberType(v) == v.k \in {"number", "inf", "ninf", "nan"}

\* ToBoolean, as "||" and "!" apply it.
Truthy(v) ==
  CASE v.k \in {"undefined", "null", "nan"} -> FALSE
    [] v.k = "number"  -> v.n # 0
    [] v.k = "string"  -> v.s # <<>>
    [] v.k = "boolean" -> v.n = 1
    [] OTHER           -> TRUE

FieldNames == {"food_name", "serving_size", "calories_kcal", "protein_g",
               "carbs_g", "fat_g", "recommendations"}

NoFields == [f \in FieldNames |-> Undefined]

\* The value JSON.parse returns: a value with the fields it has when it is
\* an object.
Json(v, f) == [k |-> v.k, n |-> v.n, s |-> v.s, f |-> f]

\* data.name: undefined on a primitive or an array, the field on an object.
\* (On null the access throws; the callers test for it.)
Get(data, name) == IF data.k = "object" THEN data.f[name] ELSE Undefined

(* ------------------------------- helpers ------------------------------ *)

\* Math.round at the digit worth unit hundredths: the nearest multiple of
\* unit, ties toward +Infinity.
RoundTo(n, unit) == unit * ((2 * n + unit) \div (2 * unit))

safeNum(v) ==
  IF ~IsNumberType(v) \/ v.k = "nan" THEN Num(0)
  ELSE IF v.k = "number" THEN Num(RoundTo(v.n, 10)) ELSE v

\* x * m for a number x and an integer m >= 0.
Times(x, m) ==
  CASE x.k = "number" -> Num(x.n * m)
    [] x.k = "nan"    -> NaN
    [] OTHER          -> IF m = 0 THEN NaN ELSE x

\* Math.round(x * 10) / 10
Round1(x) == IF x.k = "number" THEN Num(RoundTo(x.n, 10)) ELSE x

safeMul(v, m) == Round1(Times(safeNum(v), m))

capitalize(s) ==
  IF s = <<>> THEN <<>> ELSE <<toUpperCaseChar(Head(s))>> \o Tail(s)

(* --------------------------- serving helpers -------------------------- *)

Cup == <<"1", " ", "c", "u", "p">>

Bowl == <<"1", " ", "b", "o", "w", "l">>

Plate == <<"1", " ", "p", "l", "a", "t", "e">>

Piece == <<"1", " ", "p", "i", "e", "c", "e">>

Slice == <<"1", " ", "s", "l", "i", "c", "e">>

Spoon == <<"1", " ", "s", "p", "o", "o", "n">>

Glass == <<"1", " ", "g", "l", "a", "s", "s">>

allowed == {Cup, Bowl, Plate, Piece, Slice, Spoon, Glass}

\* The default parameter replaces undefined by ""; includes() compares with
\* ===, so only a string equal to an allowed label is kept.
normalizeServingSize(size) ==
  IF size.k = "string" /\ size.s \in allowed THEN size.s ELSE Plate

\* baseServing.replace(/^1\s+/, "").trim()
UnitOf(baseServing) ==
  IF baseServing # <<>> /\ Head(baseServing) = "1"
     /\ SpaceRun(Tail(baseServing)) >= 1
  THEN trim(Drop(Tail(baseServing), SpaceRun(Tail(baseServing))))
  ELSE trim(baseServing)

formatServingSize(qty, baseServing) ==
  LET unit == UnitOf(baseServing)
  IN  IF qty = 1 THEN <<"1", " ">> \o unit
      ELSE IF endsWith(unit, <<"s">>)
           THEN ToDigits(qty) \o <<" ">> \o unit
           ELSE ToDigits(qty) \o <<" ">> \o unit \o <<"s">>

(* ------------------------------ sanitizer ----------------------------- *)

sanitizeNutrition(data, fallback) ==
  [food_name     |-> IF Truthy(Get(data, "food_name"))
                     THEN Get(data, "food_name")
                     ELSE Str(capitalize(fallback)),
   serving_size  |-> normalizeServingSize(Get(data, "serving_size")),
   calories_kcal |-> safeNum(Get(data, "calories_kcal")),
   protein_g     |-> safeNum(Get(data, "protein_g")),
   carbs_g       |-> safeNum(Get(data, "carbs_g")),
   fat_g         |-> safeNum(Get(data, "fat_g"))]

\* The item the handler's loop builds from a sanitized record.
MakeItem(base, qty) ==
  [food_name     |-> base.food_name,
   serving_size  |-> formatServingSize(qty, base.serving_size),
   calories_kcal |-> safeMul(base.calories_kcal, qty),
   protein_g     |-> safeMul(base.protein_g, qty),
   carbs_g       |-> safeMul(base.carbs_g, qty),
   fat_g         |-> safeMul(base.fat_g, qty)]

(* -------------------- specification of the Normalizer ----------------- *)

Dal == <<"d", "a", "l">>

RawNames == {Undefined, Null, Str(<<>>), Str(<<"R", "i", "c", "e">>),
             Num(4200), Num(0), Bool(TRUE), Arr(<<>>), Obj}

RawServings == {Undefined, Num(100), Str(<<"2", " ", "c", "u", "p", "s">>)}
                 \cup {Str(l) : l \in allowed}

\* JSON text holds no NaN; 1e999 and -1e999 decode to the infinities.
RawCalories == {Undefined, Null, Str(<<"1", "2">>), Num(12345), Num(25),
                Num(-550), Num(-25), Infinity, NegInfinity}

RawProtein == {Undefined, Num(1234), Num(-1)}

RawCarbs == {Num(4005), Str(<<>>)}

RawFat == {Num(0), Bool(TRUE)}

RawObjects ==
  {Json(Obj, [f \in FieldNames |->
                CASE f = "food_name"     -> n
                  [] f = "serving_size"  -> sv
                  [] f = "calories_kcal" -> c
                  [] f = "protein_g"     -> p
                  [] f = "carbs_g"       -> cb
                  [] f = "fat_g"         -> ft
                  [] OTHER               -> Undefined]) :
     n \in RawNames, sv \in RawServings, c \in RawCalories,
     p \in RawProtein, cb \in RawCarbs, ft \in RawFat}

\* What JSON.parse can return besides an object with these fields.
RawOthers == {Json(Null, NoFields), Json(Num(700), NoFields),
              Json(Str(Dal), NoFields), Json(Arr(<<>>), NoFields)}

InitNorm ==
  /\ HandlerIdle
  /\ op = "raw"
  /\ arg \in [data : RawObjects \cup RawOthers,
              fallback : {Dal, <<"2">>},
              qty : 0..MaxQty]
  /\ ret = <<>>

\* sanitizeNutrition(data, food); reading a field of null throws.
Sanitize ==
  /\ op = "raw"
  /\ IF arg.data.k = "null"
     THEN op' = "threw" /\ ret' = ret
     ELSE op' = "sanitized" /\ ret' = sanitizeNutrition(arg.data, arg.fallback)
  /\ UNCHANGED <<arg, hvars>>

Scale ==
  /\ op = "sanitized"
  /\ op' = "scaled"
  /\ ret' = [base |-> ret, item |-> MakeItem(ret, arg.qty)]
  /\ UNCHANGED <<arg, hvars>>

NextNorm == Sanitize \/ Scale

SpecNorm == InitNorm /\ [][NextNorm]_vars

(* ---------------------- claims about the Normalizer ------------------- *)

MacroFields == {"calories_kcal", "protein_g", "carbs_g", "fat_g"}

FiniteNonNegative(v) == v.k = "number" /\ v.n >= 0

\* C4: in the record sanitizeNutrition returns, each of calories_kcal,
\* protein_g, carbs_g and fat_g is a finite number >= 0, whatever the raw
\* record holds; the same holds for the item fields safeMul produces for
\* every quantity >= 1.
C4_MacrosFiniteNonNegative ==
  /\ op = "sanitized" =>
       \A f \in MacroFields : FiniteNonNegative(ret[f])
  /\ (op = "scaled" /\ arg.qty >= 1) =>
       \A f \in MacroFields : FiniteNonNegative(ret.item[f])

PluralOf(label) ==
  CASE label = Cup   -> <<"c", "u", "p", "s">>
    [] label = Bowl  -> <<"b", "o", "w", "l", "s">>
    [] label = Plate -> <<"p", "l", "a", "t", "e", "s">>
    [] label = Piece -> <<"p", "i", "e", "c", "e", "s">>
    [] label = Slice -> <<"s", "l", "i", "c", "e", "s">>
    [] label = Spoon -> <<"s", "p", "o", "o", "n", "s">>
    [] label = Glass -> <<"g", "l", "a", "s", "s", "e", "s">>

\* C9: formatServingSize(1, "1 cup") = "1 cup", (3, "1 cup") gives "3 cups",
\* (2, "1 glass") gives "2 glasses": for every label of the closed set a
\* quantity of 1 renders the label itself and a quantity > 1 renders the
\* quantity followed by the plural of the unit, "glasses" for "glass".
C9_ServingLabel ==
  (op = "scaled" /\ arg.qty >= 1) =>
    ret.item.serving_size =
      IF arg.qty = 1 THEN ret.base.serving_size
      ELSE ToDigits(arg.qty) \o <<" ">> \o PluralOf(ret.base.serving_size)

\* C10: sanitizeNutrition sets food_name to the raw food_name when that is
\* a non-empty string and otherwise (missing, empty, or not a string) to the
\* fallback name with its first character uppercased, so food_name is always
\* a non-empty string.
C10_FoodName ==
  op = "sanitized" =>
    LET raw == Get(arg.data, "food_name")
    IN  /\ ret.food_name =
             IF raw.k = "string" /\ raw.s # <<>> THEN raw
             ELSE Str(<<toUpperCaseChar(Head(arg.fallback))>>
                        \o Tail(arg.fallback))
        /\ ret.food_name.k = "string"
        /\ ret.food_name.s # <<>>

(* ------------------------------- handler ------------------------------ *)

\* x + y of two numbers.
Plus(x, y) ==
  CASE x.k = "nan" \/ y.k = "nan"         -> NaN
    [] x.k = "number" /\ y.k = "number"   -> Num(x.n + y.n)
    [] x.k = "number"                     -> y
    [] y.k = "number"                     -> x
    [] x.k = y.k                          -> x
    [] OTHER                              -> NaN

\* Math.round(x)
RoundInt(x) == IF x.k = "number" THEN Num(RoundTo(x.n, 100)) ELSE x

ZeroTotals ==
  [calories |-> Num(0), protein |-> Num(0), carbs |-> Num(0), fat |-> Num(0)]

AddTotals(t, item) ==
  [calories |-> Plus(t.calories, item.calories_kcal),
   protein  |-> Plus(t.protein, item.protein_g),
   carbs    |-> Plus(t.carbs, item.carbs_g),
   fat      |-> Plus(t.fat, item.fat_g)]

\* What the service answers to one fetch: the fetch is rejected, or it
\* resolves with a status (ok is true for 2xx) and a text that is JSON for
\* val or is not JSON at all.
Reply(rejected, ok, json, val) ==
  [rejected |-> rejected, ok |-> ok, json |-> json, val |-> val]

NoReply == Reply(FALSE, FALSE, FALSE, Json(Undefined, NoFields))

Rejected == Reply(TRUE, FALSE, FALSE, Json(Undefined, NoFields))

NonJson(ok) == Reply(FALSE, ok, FALSE, Json(Undefined, NoFields))

\* An entry of the log of fetches: the service asked, the food name or the
\* rounded totals the prompt carries, and the answer once it is there.
Call(to, food, tot) ==
  [to |-> to, food |-> food, totals |-> tot, answered |-> FALSE,
   reply |-> NoReply]

NutritionCall(food) == Call("nutrition", food, ZeroTotals)

RecommendationCall(t) ==
  Call("recommendations", <<>>,
       [calories |-> RoundInt(t.calories), protein |-> RoundInt(t.protein),
        carbs |-> RoundInt(t.carbs), fat |-> RoundInt(t.fat)])

Answer(cs, reply) ==
  [cs EXCEPT ![Len(cs)] = [@ EXCEPT !.answered = TRUE, !.reply = reply]]

\* res.status(code).json(body)
Send(code, body) == Append(res, [status |-> code, body |-> body])

\* The test is q === null: an absent parameter, undefined, passes it.
Missing_strictNull(qv) == qv.k = "null"

\* if (!q)
Missing(qv) == ~Truthy(qv)

\* A parse error is swallowed and an empty object stands for the answer.
LookupThrows_swallow(reply) ==
  \/ reply.rejected
  \/ reply.json /\ reply.val.k = "null"

\* getNutritionFromAI throws when fetch rejects, when JSON.parse rejects
\* the text, and when sanitizeNutrition reads a field of null.  The status
\* of the answer is never read.
LookupThrows(reply) ==
  \/ reply.rejected
  \/ ~reply.json
  \/ reply.val.k = "null"

\* getRecommendationsFromAI throws in the same three cases.
RecommendThrows(reply) ==
  \/ reply.rejected
  \/ ~reply.json
  \/ reply.val.k = "null"

\* Array.isArray(json.recommendations) ? json.recommendations : []
RecommendationsOf(val) ==
  IF Get(val, "recommendations").k = "array"
  THEN Get(val, "recommendations").s
  ELSE <<>>

\* The item is put in front of the list.
Push_unshift(list, item) == <<item>> \o list

\* items.push(item)
Push(list, item) == Append(list, item)

\* The fetch the handler is suspended on after n items: the lookup of the
\* next mention, or the recommendation call once the loop is over.
NextCall(foods, n, t) ==
  IF n < Len(foods) THEN NutritionCall(foods[n + 1].food)
  ELSE RecommendationCall(t)

NextPc(foods, n) == IF n < Len(foods) THEN "nutrition" ELSE "recommend"

\* The queries: the parameter is absent, empty, repeated (an array), or a
\* text.
QText == { <<"d", "a", "l">>,
           <<"2", " ", "d", "a", "l", " ", "W", "i", "t", "h", " ", "R">>,
           <<"a", ",", "0", " ", "b", "&", "3", " ", "c">>,
           <<" ", "+", " ">> }

Queries == {Undefined, Str(<<>>), Arr(<<Dal, Dal>>)} \cup {Str(t) : t \in QText}

NutritionValues ==
  { Json(Obj, [NoFields EXCEPT !["food_name"] = Str(<<"R", "i", "c", "e">>),
                               !["serving_size"] = Str(Cup),
                               !["calories_kcal"] = Num(12345),
                               !["protein_g"] = Num(1234),
                               !["carbs_g"] = Num(4005),
                               !["fat_g"] = Num(25)]),
    Json(Obj, [NoFields EXCEPT !["food_name"] = Num(4200),
                               !["serving_size"] = Str(Glass),
                               !["calories_kcal"] = Num(-550),
                               !["protein_g"] = Str(<<"9">>),
                               !["carbs_g"] = Infinity]),
    Json(Num(700), NoFields),
    Json(Null, NoFields) }

RecommendationValues ==
  { Json(Obj, [NoFields EXCEPT !["recommendations"] = Arr(<<"r1", "r2">>)]),
    Json(Obj, [NoFields EXCEPT !["recommendations"] = Str(<<"r">>)]),
    Json(Obj, NoFields),
    Json(Arr(<<"r1">>), NoFields),
    Json(Num(700), NoFields),
    Json(Null, NoFields) }

Replies(values) ==
  {Rejected} \cup {NonJson(ok) : ok \in BOOLEAN}
             \cup {Reply(FALSE, ok, TRUE, v) : ok \in BOOLEAN, v \in values}

FnIdle == op = "idle" /\ arg = <<>> /\ ret = <<>>

Init ==
  /\ pc = "idle"
  /\ q = Undefined
  /\ parsedFoods = <<>>
  /\ items = <<>>
  /\ totals = ZeroTotals
  /\ res = <<>>
  /\ calls = <<>>
  /\ FnIdle

\* A request arrives: the handler runs up to its first await.
Request ==
  /\ pc = "idle"
  /\ \E qv \in Queries :
       /\ q' = qv
       /\ IF Missing(qv)
          THEN /\ res' = Send(400, [error |-> "Missing ?q parameter"])
               /\ pc' = "done"
               /\ UNCHANGED <<parsedFoods, calls>>
          ELSE IF qv.k # "string"
          THEN \* q.toLowerCase is not a function
               /\ res' = Send(500, [error |-> "TypeError"])
               /\ pc' = "done"
               /\ UNCHANGED <<parsedFoods, calls>>
          ELSE LET foods == parseFoodsWithQuantity(qv.s)
               IN  /\ parsedFoods' = foods
                   /\ calls' = <<NextCall(foods, 0, ZeroTotals)>>
                   /\ pc' = NextPc(foods, 0)
                   /\ res' = res
  /\ UNCHANGED <<items, totals, fvars>>

\* The pending nutrition fetch settles: the handler runs up to its next
\* await or to its response.
NutritionReply ==
  /\ pc = "nutrition"
  /\ \E reply \in Replies(NutritionValues) :
       LET n    == Len(items)
           m    == parsedFoods[n + 1]
           base == sanitizeNutrition(reply.val, m.food)
           item == MakeItem(base, m.qty)
           tot  == AddTotals(totals, item)
       IN  IF LookupThrows(reply)
           THEN /\ calls' = Answer(calls, reply)
                /\ res' = Send(500, [error |-> IF reply.rejected
                                               THEN "fetch failed"
                                               ELSE IF reply.json
                                               THEN "TypeError"
                                               ELSE "SyntaxError"])
                /\ pc' = "done"
                /\ UNCHANGED <<items, totals>>
           ELSE /\ items' = Push(items, item)
                /\ totals' = tot
                /\ calls' = Append(Answer(calls, reply),
                                   NextCall(parsedFoods, n + 1, tot))
                /\ pc' = NextPc(parsedFoods, n + 1)
                /\ res' = res
  /\ UNCHANGED <<q, parsedFoods, fvars>>

\* The pending recommendation fetch settles: the handler responds.
RecommendationReply ==
  /\ pc = "recommend"
  /\ \E reply \in Replies(RecommendationValues) :
       /\ calls' = Answer(calls, reply)
       /\ pc' = "done"
       /\ IF RecommendThrows(reply)
          THEN res' = Send(500, [error |-> IF reply.rejected
                                           THEN "fetch failed"
                                           ELSE IF reply.json
                                           THEN "TypeError"
                                           ELSE "SyntaxError"])
          ELSE res' = Send(200,
                 [items |-> items,
                  total_calories_kcal |-> RoundInt(totals.calories),
                  recommendations |-> RecommendationsOf(reply.val)])
  /\ UNCHANGED <<q, parsedFoods, items, totals, fvars>>

Next == Request \/ NutritionReply \/ RecommendationReply

Spec == Init /\ [][Next]_vars

(* ------------------------ claims about the handler -------------------- *)

Ended(code) == pc = "done" /\ Len(res) = 1 /\ res[1].status = code

HasError == "error" \in DOMAIN res[1].body

\* C1: a request whose q parameter is missing is answered with status 400
\* and a body with an error field, and no external call is made.
C1_MissingParameter ==
  (pc # "idle" /\ q = Undefined) =>
    Ended(400) /\ HasError /\ calls = <<>>

C1_Witness == pc = "done" /\ q = Undefined /\ Len(res) = 1

\* The i-th fetch was a nutrition lookup that resolved with text that is
\* not JSON.
NonJsonLookup(i) ==
  /\ calls[i].to = "nutrition"
  /\ calls[i].answered
  /\ ~calls[i].reply.rejected
  /\ ~calls[i].reply.json

\* C2: when the lookup of the i-th mention returns text that is not JSON,
\* the request ends with a single 500 response that has an error field and
\* no items list, and nothing is fetched after that lookup.
C2_NonJsonAborts ==
  \A i \in 1..Len(calls) :
    NonJsonLookup(i) =>
      /\ Ended(500)
      /\ HasError
      /\ "items" \notin DOMAIN res[1].body
      /\ Len(calls) = i

C2_Witness ==
  /\ Len(parsedFoods) = 3
  /\ Len(calls) = 2
  /\ NonJsonLookup(2)
  /\ Len(items) = 1
  /\ pc = "done"

\* C3: the lookups are issued one at a time in the order of the parsed
\* mentions, each after the previous one was answered, the recommendation
\* call only after the last lookup; the items of a 200 response are one per
\* mention in that order.
C3_SequentialInOrder ==
  /\ \A i \in 1..Len(calls) :
       /\ i < Len(calls) => calls[i].answered
       /\ i <= Len(parsedFoods) =>
            calls[i].to = "nutrition" /\ calls[i].food = parsedFoods[i].food
       /\ i > Len(parsedFoods) =>
            calls[i].to = "recommendations" /\ i = Len(parsedFoods) + 1
  /\ Ended(200) =>
       LET out == res[1].body.items
       IN  /\ Len(out) = Len(parsedFoods)
           /\ \A i \in 1..Len(out) :
                out[i] = MakeItem(sanitizeNutrition(calls[i].reply.val,
                                                    parsedFoods[i].food),
                                  parsedFoods[i].qty)

C3_Witness ==
  /\ Ended(200)
  /\ Len(res[1].body.items) = 3
  /\ res[1].body.items[1] # res[1].body.items[2]
  /\ res[1].body.items[2].serving_size # res[1].body.items[3].serving_size

\* The recommendation call was answered by a success status with something
\* that is not a proper sequence of recommendations.
ImproperRecommendations ==
  /\ calls # <<>>
  /\ calls[Len(calls)].to = "recommendations"
  /\ calls[Len(calls)].answered
  /\ ~calls[Len(calls)].reply.rejected
  /\ calls[Len(calls)].reply.ok
  /\ LET r == calls[Len(calls)].reply
     IN  \/ ~r.json
         \/ r.val.k # "object"
         \/ r.val.f["recommendations"].k # "array"

\* C5: when all lookups succeeded and the recommendation answer is not a
\* proper sequence (not JSON, null or not an object, no recommendations
\* field, or one that is not an array), the request ends with status 200
\* and an empty recommendations list, never with a 500.
C5_RecommendationsDegrade ==
  ImproperRecommendations =>
    Ended(200) /\ res[1].body.recommendations = <<>>

\* C6: when the service answers a nutrition lookup or the recommendation
\* call with a non-success status, the request ends with a 500 response
\* carrying an error message, never with a 200, whatever the body is.
C6_NonSuccessStatusFails ==
  (\E i \in 1..Len(calls) :
      calls[i].answered /\ ~calls[i].reply.rejected /\ ~calls[i].reply.ok) =>
    (pc = "done" => Ended(500) /\ HasError)

====
